---------------------------- MODULE Spec2Model ----------------------------
(***************************************************************************)
(* DeepLX Translate filter for Open WebUI (src/deeplx_translate.py).       *)
(*                                                                         *)
(* A Python str is modelled as a sequence of characters; a character is a  *)
(* one-element TLA+ string, and a CJK character is named by its code point *)
(* ("U7FFB" is U+7FFB), the backquote by "BQ".  The regular expressions   *)
(* of the source are modelled by the matching procedure of Python's re for *)
(* exactly the pattern text that stands in the source.                     *)
(***************************************************************************)
EXTENDS Integers, Sequences, FiniteSets

VARIABLES valves, code_blocks, pc, call, body, outcome, text, fn, out

vars == <<valves, code_blocks, pc, call, body, outcome, text, fn, out>>

(***************************************************************************)
(* Characters and literals of the source.                                  *)
(***************************************************************************)
BT == "BQ"
BS == "\\"
NL == "\n"
SP == " "

\* three backquotes: the delimiter of code_regex and of the restored
\* f-string that wraps {code}
Fence == <<BT, BT, BT>>

\* "__CODE_BLOCK__"
Placeholder == <<"_", "_", "C", "O", "D", "E", "_", "B", "L", "O", "C", "K", "_", "_">>

\* "[<U+7FFB><U+8BD1><U+5931><U+8D25>:" : the tag the hooks look for
FailureTag == <<"[", "U7FFB", "U8BD1", "U5931", "U8D25", ":">>

\* the text between {text} and {error_msg} of the fallback f-string: in a
\* non-raw literal "\\\\n" is two backslashes and the letter n
FailureSep == <<BS, BS, "n", BS, BS, "n">> \o FailureTag \o <<SP>>

\* the prefix of error_msg for a requests.exceptions.RequestException
RequestErrorPrefix == <<"U7FFB", "U8BD1", "A", "P", "I", "U9519", "U8BEF", ":", SP>>

\* the prefix of error_msg for any other Exception
UnexpectedErrorPrefix ==
    <<"U7FFB", "U8BD1", "U8FC7", "U7A0B", "U4E2D", "U53D1", "U751F", "U610F",
      "U5916", "U9519", "U8BEF", ":", SP>>

(***************************************************************************)
(* str primitives.                                                         *)
(***************************************************************************)
\* t[p:].startswith(pat), p counted from 1
StartsAt(t, p, pat) ==
    /\ p + Len(pat) - 1 <= Len(t)
    /\ \A i \in 1..Len(pat) : t[p + i - 1] = pat[i]

\* str.find(pat, p): the least position >= p where pat occurs, 0 when none
RECURSIVE Find(_, _, _)
Find(t, pat, p) ==
    IF p + Len(pat) - 1 > Len(t) THEN 0
    ELSE IF StartsAt(t, p, pat) THEN p
    ELSE Find(t, pat, p + 1)

\* pat in t
Contains(t, pat) == Find(t, pat, 1) # 0

\* t[p-1:], p counted from 1
From(t, p) == SubSeq(t, p, Len(t))

\* str.replace(old, new, 1)
ReplaceFirst(t, old, new) ==
    LET p == Find(t, old, 1) IN
    IF p = 0 THEN t
    ELSE SubSeq(t, 1, p - 1) \o new \o From(t, p + Len(old))

\* str.replace(old, new) for one-character old and new
ReplaceChar(t, old, new) == [i \in 1..Len(t) |-> IF t[i] = old THEN new ELSE t[i]]

(***************************************************************************)
(* code_regex: fence, (.*?), fence, with re.DOTALL.                        *)
(***************************************************************************)
\* The successive non-overlapping matches from position p on, leftmost
\* first: each from an opening fence to the nearest fence after it.  open
\* and close are the positions of the two fences.
RECURSIVE CodeMatches(_, _)
CodeMatches(t, p) ==
    LET o == Find(t, Fence, p) IN
    IF o = 0 THEN <<>>
    ELSE LET c == Find(t, Fence, o + 3) IN
         IF c = 0 THEN <<>>
         ELSE <<[open |-> o, close |-> c]>> \o CodeMatches(t, c + 3)

\* re.findall(code_regex, t, flags=re.DOTALL): group 1 of every match
FindAllCode(t) ==
    LET ms == CodeMatches(t, 1) IN
    [k \in 1..Len(ms) |-> SubSeq(t, ms[k].open + 3, ms[k].close - 1)]

\* re.sub(code_regex, "__CODE_BLOCK__", t, flags=re.DOTALL)
RECURSIVE SubFrom(_, _, _)
SubFrom(t, ms, p) ==
    IF ms = <<>> THEN From(t, p)
    ELSE SubSeq(t, p, Head(ms).open - 1) \o Placeholder
             \o SubFrom(t, Tail(ms), Head(ms).close + 3)

MaskCode(t) == SubFrom(t, CodeMatches(t, 1), 1)

\* the restore loop putting the bare code back, without its fences
RECURSIVE RestoreCodeUnfenced(_, _)
RestoreCodeUnfenced(t, blocks) ==
    IF blocks = <<>> THEN t
    ELSE RestoreCodeUnfenced(ReplaceFirst(t, Placeholder, Head(blocks)), Tail(blocks))

\* the restore loop: for code in self.code_blocks: replace the first
\* placeholder by the fenced code
RECURSIVE RestoreCode(_, _)
RestoreCode(t, blocks) ==
    IF blocks = <<>> THEN t
    ELSE RestoreCode(ReplaceFirst(t, Placeholder, Fence \o Head(blocks) \o Fence),
                     Tail(blocks))

(***************************************************************************)
(* split_text_around_table.  The pattern is the raw string                 *)
(*   ((?:^.*?\\|.*?\\n)+)(?=\\n[^\\|\\s].*?\\|)     with re.MULTILINE.     *)
(* In a raw string \\ is the regex for one literal backslash, so each | of *)
(* the text is an alternation bar: the repeated group is                   *)
(*   ^.*?\\  (from a line start, lazily to a backslash)   or               *)
(*   .*?\\n  (lazily to a backslash followed by the letter n),             *)
(* and the lookahead is  \\n[^\\|\\s].*?\\  or the empty alternative.      *)
(* A dot never matches a line break.  Positions count from 1; an operator  *)
(* returns the position after the match, 0 when there is no match.         *)
(***************************************************************************)
\* ^ under re.MULTILINE
AtLineStart(t, p) == p = 1 \/ t[p - 1] = NL

\* .*? followed by a backslash, tried from position j on
RECURSIVE LazyToBackslash(_, _)
LazyToBackslash(t, j) ==
    IF j > Len(t) \/ t[j] = NL THEN 0
    ELSE IF t[j] = BS THEN j + 1
    ELSE LazyToBackslash(t, j + 1)

\* .*? followed by a backslash and the letter n, tried from position j on
RECURSIVE LazyToBackslashN(_, _)
LazyToBackslashN(t, j) ==
    IF j > Len(t) \/ t[j] = NL THEN 0
    ELSE IF t[j] = BS /\ j + 1 <= Len(t) /\ t[j + 1] = "n" THEN j + 2
    ELSE LazyToBackslashN(t, j + 1)

\* one pass of (?:^.*?\\|.*?\\n) at p: the first alternative that matches
TableGroupOnce(t, p) ==
    LET a == IF AtLineStart(t, p) THEN LazyToBackslash(t, p) ELSE 0 IN
    IF a # 0 THEN a ELSE LazyToBackslashN(t, p)

\* the greedy + : after a pass that ended at e, repeat while a pass matches
RECURSIVE TableGroupMore(_, _)
TableGroupMore(t, e) ==
    LET n == TableGroupOnce(t, e) IN
    IF n = 0 THEN e ELSE TableGroupMore(t, n)

\* (?=\\n[^\\|\\s].*?\\|) at q: backslash, n, one character that is neither
\* a backslash nor | nor the letter s, lazily to a backslash; or nothing
TableLookahead(t, q) ==
    \/ /\ q + 2 <= Len(t)
       /\ t[q] = BS
       /\ t[q + 1] = "n"
       /\ t[q + 2] \notin {BS, "|", "s"}
       /\ LazyToBackslash(t, q + 3) # 0
    \/ TRUE

\* the whole pattern at p
TableMatchAt(t, p) ==
    LET first == TableGroupOnce(t, p) IN
    IF first = 0 THEN 0
    ELSE LET e == TableGroupMore(t, first) IN
         IF TableLookahead(t, e) THEN e ELSE 0

\* the leftmost match at or after p: <<start, end>>, <<0, 0>> when none
RECURSIVE FirstTableMatch(_, _)
FirstTableMatch(t, p) ==
    IF p > Len(t) THEN <<0, 0>>
    ELSE LET e == TableMatchAt(t, p) IN
         IF e # 0 THEN <<p, e>> ELSE FirstTableMatch(t, p + 1)

\* re.split gives [before, group 1, after, ...]; the function returns its
\* first two elements and drops the rest
split_text_around_table(t) ==
    LET m == FirstTableMatch(t, 1) IN
    IF m[1] # 0 THEN <<SubSeq(t, 1, m[1] - 1), SubSeq(t, m[1], m[2] - 1)>>
    ELSE <<t, <<>>>>

(***************************************************************************)
(* clean_table_delimiters.  The pattern is a raw string: a group, one or   *)
(* more times, whose text is  \\|\\s*-+\\s*  : in a raw string that is     *)
(* one backslash, or: a backslash, letters s, one or more -, a backslash,  *)
(* letters s.  Every match is rewritten by replace(" ", "-").              *)
(***************************************************************************)
\* the letters s from j on: the position after them
RECURSIVE SkipChar(_, _, _)
SkipChar(t, j, ch) ==
    IF j <= Len(t) /\ t[j] = ch THEN SkipChar(t, j + 1, ch) ELSE j

\* the first alternative at p
DelimFirstAlt(t, p) ==
    IF p > Len(t) \/ t[p] # BS THEN 0
    ELSE p + 1

\* the second alternative, reached only when the first one fails
DelimSecondAlt(t, p) ==
    IF p > Len(t) \/ t[p] # BS THEN 0
    ELSE LET a == SkipChar(t, p + 1, "s")
             b == SkipChar(t, a, "-")
         IN  IF b = a \/ b > Len(t) \/ t[b] # BS THEN 0
             ELSE SkipChar(t, b + 1, "s")

DelimGroupOnce(t, p) ==
    LET a == DelimFirstAlt(t, p) IN
    IF a # 0 THEN a ELSE DelimSecondAlt(t, p)

RECURSIVE DelimGroupMore(_, _)
DelimGroupMore(t, e) ==
    LET n == DelimGroupOnce(t, e) IN
    IF n = 0 THEN e ELSE DelimGroupMore(t, n)

\* re.sub over t from p on
RECURSIVE CleanFrom(_, _)
CleanFrom(t, p) ==
    IF p > Len(t) THEN <<>>
    ELSE LET first == DelimGroupOnce(t, p) IN
         IF first = 0 THEN <<t[p]>> \o CleanFrom(t, p + 1)
         ELSE LET e == DelimGroupMore(t, first) IN
              ReplaceChar(SubSeq(t, p, e - 1), SP, "-") \o CleanFrom(t, e)

clean_table_delimiters(t) == CleanFrom(t, 1)

(***************************************************************************)
(* translate.  The reply of the DeepLX endpoint to the one POST is the     *)
(* environment's choice:                                                   *)
(*   kind "ok"               status 2xx, JSON object whose "data" is the   *)
(*                           string data                                   *)
(*   kind "request_error"    requests raises a RequestException (no        *)
(*                           connection, timeout, raise_for_status),       *)
(*                           str(e) = err                                  *)
(*   kind "unexpected_error" any other exception in the try block (no      *)
(*                           "data" key, ...), str(e) = err                *)
(*   kind "not_str"          status 2xx, JSON object whose "data" is not a *)
(*                           string (null): translate returns it as it is  *)
(***************************************************************************)
\* the value translate returns when it returns a str
translate(t, r) ==
    CASE r.kind = "ok" -> r.data
      [] r.kind = "request_error" ->
             t \o FailureSep \o RequestErrorPrefix \o r.err \o <<"]">>
      [] r.kind = "unexpected_error" ->
             t \o FailureSep \o UnexpectedErrorPrefix \o r.err \o <<"]">>

(***************************************************************************)
(* The hooks.  inlet and outlet are the same statements over the role and  *)
(* the language pair of their direction.                                   *)
(***************************************************************************)
\* open_webui.utils.misc.get_last_user_message / get_last_assistant_message
\* scan reversed(messages) for the role and return that message's content,
\* None when there is none.  LastIndex is the position of that message, 0
\* standing for None.
RECURSIVE LastIndexFrom(_, _, _)
LastIndexFrom(messages, role, i) ==
    IF i = 0 THEN 0
    ELSE IF messages[i].role = role THEN i
    ELSE LastIndexFrom(messages, role, i - 1)

LastIndex(messages, role) == LastIndexFrom(messages, role, Len(messages))

\* self.code_blocks = re.findall(...): the attribute is rebound to the new list
AssignCodeBlocksKeepOld(old, found) == IF found = <<>> THEN old ELSE found

AssignCodeBlocks(old, found) == found

\* "[<tag>:" in translated_message, at the start only
HasFailureTagAtStart(t) == StartsAt(t, 1, FailureTag)

\* "[<tag>:" in translated_message
HasFailureTag(t) == Contains(t, FailureTag)

\* if self.valves.source_user != self.valves.target_user, reading the other pair
InletTranslatesAssistantPair(v) == v.source_assistant # v.target_assistant

\* if self.valves.source_user != self.valves.target_user
InletTranslates(v) == v.source_user # v.target_user

\* if self.valves.source_assistant != self.valves.target_assistant
OutletTranslates(v) == v.source_assistant # v.target_assistant

\* the commit loop scanning messages in stored order
CommitFirst(messages, role, translated) ==
    LET hits == {i \in 1..Len(messages) : messages[i].role = role}
        i == IF hits = {} THEN 0 ELSE CHOOSE k \in hits : \A j \in hits : k <= j
    IN  IF i = 0 \/ HasFailureTag(translated) THEN messages
        ELSE [messages EXCEPT ![i].content = translated]

\* for message in reversed(body["messages"]): the first message of the role
\* gets the translated content unless that holds the failure tag; break
Commit(messages, role, translated) ==
    LET i == LastIndex(messages, role) IN
    IF i = 0 \/ HasFailureTag(translated) THEN messages
    ELSE [messages EXCEPT ![i].content = translated]

\* What one call of a hook leaves behind: the instance's code_blocks, the
\* body object, the exception that left the hook ("none" when it returned),
\* the number of POSTs made, and the translated message it computed
\* (computed = FALSE when the call never got that far).
Left(blocks, b, exc, n, done, translated) ==
    [code_blocks |-> blocks, body |-> b, raised |-> exc, calls |-> n,
     computed |-> done, result |-> translated]

\* The body of inlet / outlet.  stash is self.code_blocks on entry, b the
\* body argument, r the endpoint's reply should the hook ask.
\*  - message is None: re.findall raises TypeError before anything is set;
\*  - "data" is not a str: translated + table_text raises TypeError.
RunHook(role, enabled, stash, b, r) ==
    LET i == LastIndex(b.messages, role) IN
    IF i = 0 THEN Left(stash, b, "TypeError", 0, FALSE, <<>>)
    ELSE
      LET message == b.messages[i].content
          blocks == AssignCodeBlocks(stash, FindAllCode(message))
          processed == MaskCode(message)
      IN
      IF ~enabled THEN Left(blocks, b, "none", 0, FALSE, <<>>)
      ELSE
        LET parts == split_text_around_table(processed) IN
        IF r.kind = "not_str" THEN Left(blocks, b, "TypeError", 1, FALSE, <<>>)
        ELSE
          LET translated_before_table == translate(parts[1], r)
              cleaned == clean_table_delimiters(translated_before_table \o parts[2])
              translated == RestoreCode(cleaned, blocks)
          IN  Left(blocks,
                   [b EXCEPT !.messages = Commit(b.messages, role, translated)],
                   "none", 1, TRUE, translated)

inlet(v, stash, b, r) == RunHook("user", InletTranslates(v), stash, b, r)

outlet(v, stash, b, r) == RunHook("assistant", OutletTranslates(v), stash, b, r)

(***************************************************************************)
(* Bounds and the inputs drawn within them.                                *)
(***************************************************************************)
\* the longest message list the host passes
MaxMsgs == 2

\* the most pieces a text given to the text functions is built from
MaxChunks == 4

Roles == {"user", "assistant"}

\* message contents: plain prose; prose with a fenced block; a fenced block
\* quoting the failure tag; a backslash before a fenced block
MsgTexts ==
    { <<"h", "i">>,
      <<"a">> \o Fence \o <<"c">> \o Fence,
      Fence \o FailureTag \o Fence,
      <<"q", BS>> \o Fence \o <<"d">> \o Fence }

\* strings the endpoint returns as "data": one without the placeholder, one
\* that kept it
DataTexts == { <<"x">>, <<"T">> \o Placeholder }

\* str(e) of a caught exception
ErrTexts == { <<"e">> }

Replies ==
    [kind : {"ok"}, data : DataTexts]
      \cup [kind : {"request_error", "unexpected_error"}, err : ErrTexts]
      \cup {[kind |-> "not_str"]}

Messages == [role : Roles, content : MsgTexts]

Bodies ==
    {[messages |-> ms, model |-> "m"] :
        ms \in UNION {[1..n -> Messages] : n \in 0..MaxMsgs}}

\* Valves(): the defaults of the class
DefaultValves ==
    [source_user |-> "auto", target_user |-> "en",
     source_assistant |-> "en", target_assistant |-> "zh"]

\* the defaults, and each direction switched off in turn
ValveConfigs ==
    { DefaultValves,
      [DefaultValves EXCEPT !.source_user = "en"],
      [DefaultValves EXCEPT !.source_assistant = "zh"] }

NoCall == [hook |-> "none", body_in |-> [messages |-> <<>>, model |-> "m"],
           reply |-> [kind |-> "not_str"], stash_in |-> <<>>]

NoBody == [messages |-> <<>>, model |-> "m"]

NoOutcome == [raised |-> "none", calls |-> 0, computed |-> FALSE, result |-> <<>>]

(***************************************************************************)
(* The filter instance under the host's sequential calls.                  *)
(*   valves, code_blocks   the attributes of the Filter instance           *)
(*   pc                    "idle": no call in progress;                    *)
(*                         "returned": a hook has returned or raised       *)
(*   call                  the hook called, its body argument as passed,   *)
(*                         the endpoint's reply for this call, and         *)
(*                         self.code_blocks as it was on entry             *)
(*   body                  the body object after the hook                  *)
(*   outcome               what the hook did besides (see Left)            *)
(***************************************************************************)
\* __init__ with valves = None
Init ==
    /\ valves = DefaultValves
    /\ code_blocks = <<>>
    /\ pc = "idle"
    /\ call = NoCall
    /\ body = NoBody
    /\ outcome = NoOutcome
    /\ text = <<>>
    /\ fn = "none"
    /\ out = <<>>

Finish(h, b, r, left) ==
    /\ code_blocks' = left.code_blocks
    /\ body' = left.body
    /\ outcome' = [raised |-> left.raised, calls |-> left.calls,
                   computed |-> left.computed, result |-> left.result]
    /\ call' = [hook |-> h, body_in |-> b, reply |-> r, stash_in |-> code_blocks]
    /\ pc' = "returned"
    /\ UNCHANGED <<valves, text, fn, out>>

\* the host awaits inlet(body)
Inlet(b, r) ==
    /\ pc = "idle"
    /\ Finish("inlet", b, r, inlet(valves, code_blocks, b, r))

\* the host awaits outlet(body)
Outlet(b, r) ==
    /\ pc = "idle"
    /\ Finish("outlet", b, r, outlet(valves, code_blocks, b, r))

\* the host goes on with the body; the instance keeps its attributes
HostContinues ==
    /\ pc = "returned"
    /\ pc' = "idle"
    /\ call' = NoCall
    /\ body' = NoBody
    /\ outcome' = NoOutcome
    /\ UNCHANGED <<valves, code_blocks, text, fn, out>>

\* the host stores new valves on the instance between calls
UpdateValves(v) ==
    /\ pc = "idle"
    /\ v # valves
    /\ valves' = v
    /\ UNCHANGED <<code_blocks, pc, call, body, outcome, text, fn, out>>

Next ==
    \/ \E b \in Bodies, r \in Replies : Inlet(b, r)
    \/ \E b \in Bodies, r \in Replies : Outlet(b, r)
    \/ HostContinues
    \/ \E v \in ValveConfigs : UpdateValves(v)

Spec == Init /\ [][Next]_vars

(***************************************************************************)
(* The text functions on their own: a text is drawn, then one of the       *)
(* functions is applied to it.                                             *)
(*   text   the input                                                      *)
(*   fn     "none", or the function applied                                *)
(*   out    its result                                                     *)
(***************************************************************************)
\* the pieces texts are built from: a fence, a letter, the placeholder
\* without its last two underscores, two underscores, a table row, a table
\* separator line, a backslash, the letter n
Chunks ==
    { Fence,
      <<"a">>,
      SubSeq(Placeholder, 1, 12),
      <<"_", "_">>,
      <<"|", "a", "|", NL>>,
      <<"|", "-", "|", NL>>,
      <<BS>>,
      <<"n">> }

RECURSIVE Join(_, _)
Join(cs, k) == IF k > Len(cs) THEN <<>> ELSE cs[k] \o Join(cs, k + 1)

FnTexts == {Join(cs, 1) : cs \in UNION {[1..n -> Chunks] : n \in 0..MaxChunks}}

InitFn ==
    /\ text \in FnTexts
    /\ fn = "none"
    /\ out = <<>>
    /\ valves = DefaultValves
    /\ code_blocks = <<>>
    /\ pc = "idle"
    /\ call = NoCall
    /\ body = NoBody
    /\ outcome = NoOutcome

\* extract (findall, sub) and then the restore loop, nothing in between
ExtractRestore ==
    /\ fn = "none"
    /\ fn' = "extract_restore"
    /\ LET stash == FindAllCode(text)
           masked == MaskCode(text)
       IN  out' = [stash |-> stash, masked |-> masked,
                   restored |-> RestoreCode(masked, stash)]
    /\ UNCHANGED <<text, valves, code_blocks, pc, call, body, outcome>>

SplitTable ==
    /\ fn = "none"
    /\ fn' = "split"
    /\ out' = split_text_around_table(text)
    /\ UNCHANGED <<text, valves, code_blocks, pc, call, body, outcome>>

CleanDelimiters ==
    /\ fn = "none"
    /\ fn' = "clean"
    /\ out' = clean_table_delimiters(text)
    /\ UNCHANGED <<text, valves, code_blocks, pc, call, body, outcome>>

NextFn == ExtractRestore \/ SplitTable \/ CleanDelimiters

SpecFn == InitFn /\ [][NextFn]_vars

(***************************************************************************)
(* Vocabulary of the properties.                                           *)
(***************************************************************************)
Returned == pc = "returned"

\* the role the called hook looks for
TargetRole == IF call.hook = "inlet" THEN "user" ELSE "assistant"

\* the position of the most recent message of that role in the body as
\* passed, 0 when there is none
TargetIndex == LastIndex(call.body_in.messages, TargetRole)

\* the configured source and target language of the hook's direction differ
LangsDiffer ==
    IF call.hook = "inlet" THEN valves.source_user # valves.target_user
    ELSE valves.source_assistant # valves.target_assistant

ContentBefore == call.body_in.messages[TargetIndex].content

ContentAfter == body.messages[TargetIndex].content

CallFailed == call.reply.kind \in {"request_error", "unexpected_error"}

\* every block, fenced, occurs in t from p on, one after the other
RECURSIVE FencedInOrder(_, _, _)
FencedInOrder(t, blocks, p) ==
    IF blocks = <<>> THEN TRUE
    ELSE LET fenced == Fence \o Head(blocks) \o Fence
             q == Find(t, fenced, p)
         IN  q # 0 /\ FencedInOrder(t, Tail(blocks), q + Len(fenced))

\* the number of places where pat occurs in t
Occurrences(t, pat) == Cardinality({p \in 1..Len(t) : StartsAt(t, p, pat)})

\* the position of the line break that ends the line holding p; Len(t) + 1
\* when the last line has none
RECURSIVE LineEnd(_, _)
LineEnd(t, p) == IF p > Len(t) \/ t[p] = NL THEN p ELSE LineEnd(t, p + 1)

\* the line that starts at p is made of pipes and dashes, with both
IsSeparatorLine(t, p) ==
    LET e == LineEnd(t, p) IN
    /\ \A i \in p..(e - 1) : t[i] \in {"|", "-"}
    /\ \E i \in p..(e - 1) : t[i] = "|"
    /\ \E i \in p..(e - 1) : t[i] = "-"

\* the line that ends with the line break at p - 1 holds a pipe
LineBeforeHasPipe(t, p) ==
    \E i \in 1..(p - 2) : t[i] = "|" /\ \A j \in i..(p - 2) : t[j] # NL

\* the starts of the separator lines that directly follow a line with a pipe
SeparatorStarts(t) ==
    {p \in 2..Len(t) : t[p - 1] = NL /\ IsSeparatorLine(t, p) /\ LineBeforeHasPipe(t, p)}

FirstSeparator(t) == CHOOSE p \in SeparatorStarts(t) : \A q \in SeparatorStarts(t) : p <= q

\* the translated message a call computes from its own target message and
\* the reply alone
OwnResult ==
    LET parts == split_text_around_table(MaskCode(ContentBefore)) IN
    RestoreCode(clean_table_delimiters(translate(parts[1], call.reply) \o parts[2]),
                FindAllCode(ContentBefore))

(***************************************************************************)
(* The properties.                                                         *)
(***************************************************************************)
\* C1: in both hooks, when the direction's languages differ and the
\* translation call fails (RequestException or any other exception), the
\* failure tag is in the translated message the hook computed and every
\* message of the body, the target message included, is as it was passed.
\* A reply whose "data" is not a string leaves the messages as passed too.
C1_FailureLeavesContent ==
    /\ (Returned /\ LangsDiffer /\ TargetIndex # 0 /\ CallFailed)
          => /\ outcome.computed
             /\ Contains(outcome.result, FailureTag)
             /\ ContentAfter = ContentBefore
             /\ body.messages = call.body_in.messages
    /\ (Returned /\ LangsDiffer /\ TargetIndex # 0 /\ call.reply.kind = "not_str")
          => body.messages = call.body_in.messages

C1_Witness ==
    /\ Returned /\ LangsDiffer /\ TargetIndex # 0
    /\ call.reply.kind = "request_error"
    /\ FindAllCode(ContentBefore) = << <<"c">> >>
    /\ Contains(outcome.result, FailureTag)
    /\ ~Contains(ContentAfter, FailureTag)

\* C2: in both hooks, when the direction's languages differ and the
\* endpoint returns a string without error, the target message's content
\* is overwritten with the translated message the hook computed, whatever
\* the original content and the returned string.
C2_SuccessCommits ==
    (Returned /\ LangsDiffer /\ TargetIndex # 0 /\ call.reply.kind = "ok")
        => outcome.computed /\ ContentAfter = outcome.result

\* C3: when source and target language of the hook's direction are equal,
\* the hook makes no translation call and every message of the body is as
\* it was passed (also when the call ends in the TypeError of a missing
\* target message: the body object is then compared as the hook left it).
C3_EqualLanguagesNoOp ==
    (Returned /\ ~LangsDiffer)
        => outcome.calls = 0 /\ ~outcome.computed /\ body = call.body_in

C3_Witness ==
    /\ Returned /\ call.hook = "inlet"
    /\ valves.source_user = valves.target_user
    /\ valves.source_assistant # valves.target_assistant
    /\ TargetIndex # 0
    /\ FindAllCode(ContentBefore) # <<>>
    /\ outcome.raised = "none"

\* C4: when a hook runs with differing languages, every fenced code block
\* of the original target message is, fences included and in the original
\* order, in that message's final content, whatever the endpoint replied.
C4_CodeBlocksSurvive ==
    (Returned /\ LangsDiffer /\ TargetIndex # 0)
        => FencedInOrder(ContentAfter, FindAllCode(ContentBefore), 1)

\* C5 as claimed: for every text that does not contain the placeholder
\* token, extracting the code blocks and restoring them with nothing in
\* between gives the text back.
C5_RoundTripNoTokenInText ==
    (fn = "extract_restore" /\ ~Contains(text, Placeholder))
        => out.restored = text

\* C5 as amended: for every text that does not contain the placeholder
\* token and whose masked form holds the token nowhere but at the N places
\* where a fenced region was replaced, extracting and restoring gives the
\* text back.
C5_RoundTripNoCollision ==
    (/\ fn = "extract_restore"
     /\ ~Contains(text, Placeholder)
     /\ Occurrences(out.masked, Placeholder) = Len(out.stash))
        => out.restored = text

C5_Witness ==
    /\ fn = "extract_restore"
    /\ ~Contains(text, Placeholder)
    /\ Len(out.stash) = 1
    /\ out.stash[1] = <<"a">>
    /\ Occurrences(out.masked, Placeholder) = 1
    /\ SubSeq(text, 1, 2) = <<"_", "_">>
    /\ out.restored = text

\* C6: for every text with a well-formed table (a line with a pipe directly
\* followed by a separator line of pipes and dashes), the split gives a
\* prefix and a table region that starts at the separator line, and prefix
\* followed by table region is the text.
C6_SplitAtSeparator ==
    (fn = "split" /\ SeparatorStarts(text) # {})
        => /\ out[1] \o out[2] = text
           /\ Len(out[1]) = FirstSeparator(text) - 1

\* C7: for every text without a pipe character the split gives the whole
\* text as prefix and the empty string as table region.
C7_NoPipeNoSplit ==
    (fn = "split" /\ ~Contains(text, <<"|">>))
        => out = <<text, <<>>>>

\* C8: when the message list holds no message of the hook's target role,
\* the hook returns the body with every message as passed and raises no
\* exception, whatever the language pair.
C8_NoTargetNoOp ==
    (Returned /\ TargetIndex = 0)
        => body = call.body_in /\ outcome.raised = "none"

\* C9: a hook call changes at most the content of the most recent message
\* of its target role: the number, order and roles of the messages, every
\* other message's content and the rest of the body are as passed.
C9_OnlyTargetContent ==
    Returned =>
        /\ Len(body.messages) = Len(call.body_in.messages)
        /\ \A i \in 1..Len(body.messages) :
              /\ body.messages[i].role = call.body_in.messages[i].role
              /\ i # TargetIndex
                    => body.messages[i].content = call.body_in.messages[i].content
        /\ body.model = call.body_in.model

C9_Witness ==
    /\ Returned
    /\ TargetIndex = 2
    /\ call.body_in.messages[1].role = TargetRole
    /\ call.body_in.messages[1].content # ContentBefore
    /\ ContentAfter # ContentBefore
    /\ body.messages[1] = call.body_in.messages[1]

\* C10: over any sequence of calls on one instance, a call that finds its
\* target message leaves in code_blocks the blocks of that message alone,
\* and the translated message it computes, like the content it leaves, is
\* decided by its own body, valves and reply: what an earlier call stashed
\* plays no part.  A call that finds no target message ends before it
\* reads code_blocks and computes nothing.
C10_StashIsOwn ==
    /\ (Returned /\ TargetIndex # 0)
          => /\ code_blocks = FindAllCode(ContentBefore)
             /\ outcome.computed => outcome.result = OwnResult
             /\ ContentAfter \in
                   {ContentBefore} \cup (IF outcome.computed THEN {OwnResult} ELSE {})
    /\ (Returned /\ TargetIndex = 0)
          => ~outcome.computed /\ body = call.body_in

C10_Witness ==
    /\ Returned /\ TargetIndex # 0
    /\ call.stash_in = << <<"c">> >>
    /\ code_blocks = <<>>
    /\ outcome.computed
    /\ Contains(outcome.result, Placeholder)
    /\ ContentAfter = outcome.result
=============================================================================
